---- MODULE Spec2Model ----
(***************************************************************************)
(* elogviewer 2.6: the classification of an elog (Elog.fromFilename) and   *)
(* its rendering to HTML (_html), src/elogviewer.py.                       *)
(*                                                                         *)
(* One elog file is modelled.  Its content is a string; the operators      *)
(* below work on the characters of that string, as the Python code does.   *)
(* The life of the file in the program: it is classified when its row is   *)
(* created (Elog.fromFilename) and rendered when the row is displayed      *)
(* (_html).  _html is modelled statement by statement: the for loop over   *)
(* the lines of the file, then the closing appends, the join and the       *)
(* regular-expression substitutions.                                       *)
(* _file opens the file by its extension and hands a fixed placeholder     *)
(* text to both when the extension is unknown or the file does not open.   *)
(*                                                                         *)
(* The window (class Elogviewer) is modelled beside it: the rows of the    *)
(* table, the elog files on disk, the selection and the current row, and   *)
(* the handler of the delete action, one step per pass of its loop.        *)
(***************************************************************************)
EXTENDS Integers, Sequences, FiniteSets, TLC

VARIABLES
    filename,   \* the name of the elog file
    openable,   \* whether opening the file succeeds (no IOError)
    content,    \* the text of the elog file on disk (what its stream yields)
    pc,         \* "start" | "elog" | "loop" | "done" | "raised"
    eclass,     \* Elog.eclass, "None" before Elog.fromFilename has run
    elogfile,   \* _html: the unread remainder of the open file
    lines,      \* _html: the local list `lines`
    text,       \* _html: the local `text`
    disk,       \* the names of the elog files on disk
    locked,     \* the files whose removal fails (os.remove raises)
    rows,       \* Elogviewer.model: the rows, [filename, readState]
    selection,  \* selectionModel().selectedRows(): the files of the rows
    current,    \* selectionModel().currentIndex(): its file, "" if invalid
    gpc,        \* "idle" | "while" | "messagebox" | "after" | "IndexError"
    skipped,    \* deleteSelected: the local `skipped`
    savedrow,   \* deleteSelected: the local `savedrow`
    atStart     \* history: rows, disk and selection when deleteSelected began

elogVars == <<filename, openable, content, pc, eclass, elogfile, lines, text>>

guiVars == <<disk, locked, rows, selection, current, gpc, skipped, savedrow, atStart>>

vars == <<elogVars, guiVars>>

(***************************************************************************)
(* Bounds and the universe of input lines.                                 *)
(***************************************************************************)
MaxLines == 3

ElogLines ==
    { "ERROR: x", "WARN: x", "LOG: x", "INFO: x", "QA: x",
      "Error: x", "XXX: x",
      "x ERROR: y", "LOG:x", "WARN: x: y",
      "", "  " }

RECURSIVE LineSeqs(_)
LineSeqs(n) ==
    IF n = 0 THEN { <<>> }
    ELSE LET shorter == LineSeqs(n - 1)
         IN  shorter \cup { Append(s, l) : s \in { t \in shorter : Len(t) = n - 1 },
                                           l \in ElogLines }

\* The file that holds the given lines, each ended by a newline.
RECURSIVE FileContent(_)
FileContent(ls) ==
    IF ls = <<>> THEN "" ELSE Head(ls) \o "\n" \o FileContent(Tail(ls))

\* The same for any universe of lines.
RECURSIVE LineSeqsOf(_, _)
LineSeqsOf(universe, n) ==
    IF n = 0 THEN { <<>> }
    ELSE LET shorter == LineSeqsOf(universe, n - 1)
         IN  shorter \cup { Append(s, l) : s \in { t \in shorter : Len(t) = n - 1 },
                                           l \in universe }

\* Lines with what the substitutions look for: colour sequences (ESC is
\* written ^), URLs, bug references, package atoms; and lines that are not
\* well-formed: an undecodable byte (written @), colons in any number.
MaxLinkLines == 2

LinkLines ==
    { "LOG: x",
      "see http://a.b/c now", "ftp://x https://y", "http://", "see http://a^[0m",
      "bug #42", "Bug #7",
      "x dev-lang/python-3.11 y", "x app-misc/foo-1 y",
      "^[1mLOG: x^[0m", "^^[0m[0m",
      "@x: @", "a:b:c:d", "ERROR", ":" }

\* Files by name: the three formats _file opens and two it does not know.
FileNames ==
    { "cat:pkg:20200101-000000.log", "cat:pkg:20200101-000000.log.gz",
      "cat:pkg:20200101-000000.log.bz2", "cat:pkg:20200101-000000.log.xz",
      "cat:pkg:20200101-000000.log~" }

FileLines == { "LOG: x", "WARN: x", "x", "" }

(***************************************************************************)
(* Strings.                                                                *)
(***************************************************************************)
Char(s, i) == SubSeq(s, i, i)

\* s[i:] of Python, with i counted from 1.
From(s, i) == SubSeq(s, i, Len(s))

\* s.startswith(p, i - 1)
MatchAt(s, i, p) == /\ i + Len(p) - 1 <= Len(s)
                    /\ SubSeq(s, i, i + Len(p) - 1) = p

Whitespace == { " ", "\n", "\t", "\r", "\f" }

RECURSIVE lstrip(_)
lstrip(s) ==
    IF s # "" /\ Char(s, 1) \in Whitespace THEN lstrip(Tail(s)) ELSE s

RECURSIVE rstrip(_)
rstrip(s) ==
    IF s # "" /\ Char(s, Len(s)) \in Whitespace
    THEN rstrip(SubSeq(s, 1, Len(s) - 1))
    ELSE s

\* bytes.strip()
strip(s) == rstrip(lstrip(s))

\* str.upper() on ASCII text (used to state the claims about letter case).
upperChar(c) ==
    IF \E i \in 1..26 : Char("abcdefghijklmnopqrstuvwxyz", i) = c
    THEN Char("ABCDEFGHIJKLMNOPQRSTUVWXYZ",
              CHOOSE i \in 1..26 : Char("abcdefghijklmnopqrstuvwxyz", i) = c)
    ELSE c

RECURSIVE upper(_)
upper(s) == IF s = "" THEN "" ELSE upperChar(Char(s, 1)) \o upper(Tail(s))

\* Mutant of split: line.split(":", 1), only the first separator splits.
splitOnce(s, sep) ==
    IF \E i \in 1..Len(s) : Char(s, i) = sep
    THEN LET i == CHOOSE j \in 1..Len(s) :
                      /\ Char(s, j) = sep
                      /\ \A k \in 1..(j - 1) : Char(s, k) # sep
         IN  <<SubSeq(s, 1, i - 1), From(s, i + 1)>>
    ELSE <<s>>

\* str.split(sep) for a one-character sep: every separator splits.
RECURSIVE split(_, _)
split(s, sep) ==
    IF \E i \in 1..Len(s) : Char(s, i) = sep
    THEN LET i == CHOOSE j \in 1..Len(s) :
                      /\ Char(s, j) = sep
                      /\ \A k \in 1..(j - 1) : Char(s, k) # sep
         IN  <<SubSeq(s, 1, i - 1)>> \o split(From(s, i + 1), sep)
    ELSE <<s>>

\* os.linesep.join(lines)
RECURSIVE join(_, _)
join(sep, ls) ==
    IF ls = <<>> THEN ""
    ELSE IF Len(ls) = 1 THEN ls[1]
    ELSE ls[1] \o sep \o join(sep, Tail(ls))

linesep == "\n"

(***************************************************************************)
(* class EClass(IntEnum)                                                   *)
(***************************************************************************)
EClass == [Error |-> 4, Warning |-> 3, Log |-> 2, Info |-> 1, QA |-> 0]

EClassNames == DOMAIN EClass

\* EClass.htmlColor(): QColor.name() of EClass.color()
htmlColor(e) ==
    CASE e = "Error"   -> "#ff0000"
      [] e = "Warning" -> "#e56717"
      [] e = "Info"    -> "#008000"
      [] e = "Log"     -> "#008000"
      [] e = "QA"      -> "#008000"

(***************************************************************************)
(* Elog.fromFilename: the highest elog class of the file.                  *)
(***************************************************************************)
\* The alternatives of the pattern "ERROR:|WARN:|LOG:|INFO:|QA:", in order.
ClassPattern == <<"ERROR:", "WARN:", "LOG:", "INFO:", "QA:">>

\* Mutant of AlternativeAt: the pattern compiled with re.IGNORECASE.
AlternativeAtIgnoreCase(s, i) ==
    IF \E k \in DOMAIN ClassPattern :
           i + Len(ClassPattern[k]) - 1 <= Len(s)
           /\ upper(SubSeq(s, i, i + Len(ClassPattern[k]) - 1)) = ClassPattern[k]
    THEN ClassPattern[CHOOSE k \in DOMAIN ClassPattern :
             /\ i + Len(ClassPattern[k]) - 1 <= Len(s)
             /\ upper(SubSeq(s, i, i + Len(ClassPattern[k]) - 1)) = ClassPattern[k]]
    ELSE ""

\* The alternative that matches at position i ("" when none does).
AlternativeAt(s, i) ==
    IF \E k \in DOMAIN ClassPattern : MatchAt(s, i, ClassPattern[k])
    THEN ClassPattern[CHOOSE k \in DOMAIN ClassPattern :
                          /\ MatchAt(s, i, ClassPattern[k])
                          /\ \A j \in 1..(k - 1) : ~MatchAt(s, i, ClassPattern[j])]
    ELSE ""

\* re.findall(pattern, s), scanning from position i: the matches from left
\* to right, none overlapping another.
RECURSIVE findallFrom(_, _)
findallFrom(s, i) ==
    LET ks == { k \in i..Len(s) : AlternativeAt(s, k) # "" }
    IN  IF ks = {} THEN <<>>
        ELSE LET k == CHOOSE m \in ks : \A n \in ks : m <= n
                 m == AlternativeAt(s, k)
             IN  <<m>> \o findallFrom(s, k + Len(m))

findall(s) == findallFrom(s, 1)

\* x in list
In(x, list) == \E k \in DOMAIN list : list[k] = x

\* Mutant of HighestClass: the WARN: branch tested before the ERROR: branch.
HighestClassWarnFirst(eClasses) ==
    IF In("WARN:", eClasses) THEN "Warning"
    ELSE IF In("ERROR:", eClasses) THEN "Error"
    ELSE IF In("LOG:", eClasses) THEN "Log"
    ELSE IF In("INFO:", eClasses) THEN "Info"
    ELSE IF In("QA:", eClasses) THEN "QA"
    ELSE "Info"

\* the if/elif chain over eClasses
HighestClass(eClasses) ==
    IF In("ERROR:", eClasses) THEN "Error"
    ELSE IF In("WARN:", eClasses) THEN "Warning"
    ELSE IF In("LOG:", eClasses) THEN "Log"
    ELSE IF In("INFO:", eClasses) THEN "Info"
    ELSE IF In("QA:", eClasses) THEN "QA"
    ELSE "Info"

getClass(s) == HighestClass(findall(s))

(***************************************************************************)
(* _(bytes): bytes.decode(locale.getpreferredencoding(), "replace").       *)
(* InvalidByte stands for a byte that the preferred encoding cannot        *)
(* decode, ReplacementChar for U+FFFD; every other character of the model  *)
(* is ASCII and decodes to itself.                                         *)
(***************************************************************************)
InvalidByte == "@"
ReplacementChar == "?"

RECURSIVE decode(_)
decode(bytes) ==
    IF bytes = "" THEN ""
    ELSE IF \E i \in 1..Len(bytes) : Char(bytes, i) = InvalidByte
    THEN LET i == CHOOSE j \in 1..Len(bytes) :
                      /\ Char(bytes, j) = InvalidByte
                      /\ \A k \in 1..(j - 1) : Char(bytes, k) # InvalidByte
         IN  SubSeq(bytes, 1, i - 1) \o ReplacementChar \o decode(From(bytes, i + 1))
    ELSE bytes

(***************************************************************************)
(* _file: the stream of an elog file.                                      *)
(***************************************************************************)
\* os.path.splitext(filename)[1]: from the last dot of the last path
\* component on, "" when that component has no dot after its first
\* character that is not a dot.
splitext(name) ==
    LET slashes == { i \in 1..Len(name) : Char(name, i) = "/" }
        base    == IF slashes = {} THEN 1
                   ELSE 1 + CHOOSE i \in slashes : \A j \in slashes : j <= i
        dots    == { i \in base..Len(name) :
                       /\ Char(name, i) = "."
                       /\ \E k \in base..(i - 1) : Char(name, k) # "." }
    IN  IF dots = {} THEN ""
        ELSE From(name, CHOOSE i \in dots : \A j \in dots : j <= i)

\* The keys of the dict of openers: gzip.open, bz2.BZ2File, open.
Openers == { ".gz", ".bz2", ".log" }

\* The text handed out on KeyError.
UnsupportedFormat ==
    "\n                <!-- set eclass: ERROR: -->"
    \o "\n                <h3>Unsupported format</h3>"
    \o "\n                The selected elog is in an unsupported format."
    \o "\n                "

\* The text handed out on IOError.
DoesNotOpen ==
    "\n                <!-- set eclass: ERROR: -->"
    \o "\n                <h3>File does not open</h3>"
    \o "\n                The selected elog could not be opened."
    \o "\n                "

\* Mutant of _file: the extension is not looked up, every file is opened
\* with open.
_fileAlwaysOpen(name, canOpen, bytes) ==
    IF ~canOpen THEN DoesNotOpen ELSE bytes

\* _file(filename): what the returned stream yields.  The lookup of the
\* extension comes first (KeyError), then the call of the opener (IOError);
\* for .gz and .bz2 `bytes` is the decompressed text.
_file(name, canOpen, bytes) ==
    IF splitext(name) \notin Openers THEN UnsupportedFormat
    ELSE IF ~canOpen THEN DoesNotOpen
    ELSE bytes

(***************************************************************************)
(* _html: the body of the for loop.                                        *)
(***************************************************************************)
\* `for line in elogfile`: the next line of the file, its newline included.
LineEnd(f) ==
    IF \E i \in 1..Len(f) : Char(f, i) = "\n"
    THEN CHOOSE i \in 1..Len(f) :
             /\ Char(f, i) = "\n"
             /\ \A k \in 1..(i - 1) : Char(f, k) # "\n"
    ELSE Len(f)

readline(f) == SubSeq(f, 1, LineEnd(f))

\* Mutant of markerEClass: the marker compared without regard to case.
markerEClassAnyCase(word) ==
    CASE upper(word) = "ERROR" -> "Error"
      [] upper(word) = "WARN"  -> "Warning"
      [] upper(word) = "LOG"   -> "Log"
      [] upper(word) = "INFO"  -> "Info"
      [] upper(word) = "QA"    -> "QA"
      [] OTHER                 -> "ValueError"

\* the if/elif chain on the text before the colon; "ValueError" is the raise
markerEClass(word) ==
    CASE word = "ERROR" -> "Error"
      [] word = "WARN"  -> "Warning"
      [] word = "LOG"   -> "Log"
      [] word = "INFO"  -> "Info"
      [] word = "QA"    -> "QA"
      [] OTHER          -> "ValueError"

\* eclass, stage = line.split(":"): unpacking anything but two parts raises
\* ValueError.
headerParts(line) == split(line, ":")

\* Mutant of headerEClass: eclass, stage = line.split(":")[:2], the parts
\* after the second are dropped instead of raising.
headerEClassFirstTwo(line) ==
    LET parts == headerParts(line)
    IN  IF Len(parts) < 2 THEN "ValueError" ELSE markerEClass(parts[1])

headerEClass(line) ==
    LET parts == headerParts(line)
    IN  IF Len(parts) # 2 THEN "ValueError" ELSE markerEClass(parts[1])

headerStage(line) == headerParts(line)[2]

\* "{} <br />".format(line)
bodyLine(line) == line \o " <br />"

\* Mutant of sectionHeader: the body block is opened in the colour of the
\* default class whatever the class of the header.
sectionHeaderDefaultBlock(e, stage) ==
    "<h3 style=\"color: " \o htmlColor(e) \o "\">" \o e \o ": " \o stage \o "</h3>"
    \o "<p style=\"color: " \o htmlColor("Info") \o "\">"

sectionHeader(e, stage) ==
    "<h3 style=\"color: " \o htmlColor(e) \o "\">" \o e \o ": " \o stage \o "</h3>"
    \o "<p style=\"color: " \o htmlColor(e) \o "\">"

\* Mutant of loopBody: the test `if lines:` guards the body line as well, so
\* a body line before the first header is dropped.
loopBodyDropsLeadingBody(ls, raw) ==
    LET line == decode(strip(raw))
        e    == headerEClass(line)
    IN  IF e = "ValueError"
        THEN (IF ls # <<>> THEN Append(ls, bodyLine(line)) ELSE ls)
        ELSE (IF ls # <<>> THEN Append(ls, "</p>") ELSE ls)
             \o <<sectionHeader(e, headerStage(line))>>

\* Mutant of Caught: the handler is written for another exception.
CaughtKeyError == { "KeyError" }

\* `except ValueError:` the exceptions the handler of the loop body catches.
Caught == { "ValueError" }

\* The try block raises for this line and the handler does not catch it:
\* the exception leaves _html.
propagates(raw) ==
    LET e == headerEClass(decode(strip(raw)))
    IN  e \notin EClassNames /\ e \notin Caught

\* One pass of the loop body: `lines` after the raw line has been handled.
loopBody(ls, raw) ==
    LET line == decode(strip(raw))
        e    == headerEClass(line)
    IN  IF e = "ValueError"
        THEN Append(ls, bodyLine(line))
        ELSE (IF ls # <<>> THEN Append(ls, "</p>") ELSE ls)
             \o <<sectionHeader(e, headerStage(line))>>

(***************************************************************************)
(* _html: the substitutions on the joined text.  Each pattern is matched   *)
(* as the re module matches it: the leftmost match first, every quantifier *)
(* greedy, the matches replaced in one pass from left to right and the     *)
(* replacement text not scanned again.  XxxEnd(s, i) is the position of    *)
(* the last character of the match that starts at i, 0 when none does.     *)
(***************************************************************************)
\* Stands for the character \x1b.
ESC == "^"

Digits == { "0", "1", "2", "3", "4", "5", "6", "7", "8", "9" }

LowerLetters ==
    { Char("abcdefghijklmnopqrstuvwxyz", i) : i \in 1..26 }

\* The last position of the longest run of characters of `class` that
\* starts at i; i - 1 when s[i] is not in the class.
RECURSIVE runEnd(_, _, _)
runEnd(s, i, class) ==
    IF i <= Len(s) /\ Char(s, i) \in class THEN runEnd(s, i + 1, class) ELSE i - 1

\* The same for \S, the characters that are not whitespace.
RECURSIVE nonSpaceRunEnd(_, _)
nonSpaceRunEnd(s, i) ==
    IF i <= Len(s) /\ Char(s, i) \notin Whitespace
    THEN nonSpaceRunEnd(s, i + 1)
    ELSE i - 1

CharIs(s, i, class) == i <= Len(s) /\ Char(s, i) \in class

\* "\x1b\[[0-9;]+m"
ansiEnd(s, i) ==
    IF Char(s, i) = ESC /\ MatchAt(s, i, ESC \o "[")
    THEN LET r == runEnd(s, i + 2, Digits \cup {";"})
         IN  IF r >= i + 2 /\ CharIs(s, r + 1, {"m"}) THEN r + 1 ELSE 0
    ELSE 0

RECURSIVE stripAnsi(_, _)
stripAnsi(s, i) ==
    LET ks == { k \in i..Len(s) : ansiEnd(s, k) > 0 }
    IN  IF ks = {} THEN From(s, i)
        ELSE LET k == CHOOSE m \in ks : \A n \in ks : m <= n
             IN  SubSeq(s, i, k - 1) \o stripAnsi(s, ansiEnd(s, k) + 1)

\* Mutant of urlEnd: "(https?://\S+)", the ftp scheme is left out.
urlEndHttpOnly(s, i) ==
    LET scheme == IF Char(s, i) # "h" THEN 0
                  ELSE IF MatchAt(s, i, "https://") THEN 8
                  ELSE IF MatchAt(s, i, "http://") THEN 7
                  ELSE 0
        r == nonSpaceRunEnd(s, i + scheme)
    IN  IF scheme > 0 /\ r >= i + scheme THEN r ELSE 0

\* "((https?|ftp)://\S+)"
urlEnd(s, i) ==
    LET scheme == IF Char(s, i) \notin {"h", "f"} THEN 0
                  ELSE IF MatchAt(s, i, "https://") THEN 8
                  ELSE IF MatchAt(s, i, "http://") THEN 7
                  ELSE IF MatchAt(s, i, "ftp://") THEN 6
                  ELSE 0
        r == nonSpaceRunEnd(s, i + scheme)
    IN  IF scheme > 0 /\ r >= i + scheme THEN r ELSE 0

\* r'<a href="\1">\1</a>'
urlLink(url) == "<a href=\"" \o url \o "\">" \o url \o "</a>"

RECURSIVE linkUrls(_, _)
linkUrls(s, i) ==
    LET ks == { k \in i..Len(s) : urlEnd(s, k) > 0 }
    IN  IF ks = {} THEN From(s, i)
        ELSE LET k == CHOOSE m \in ks : \A n \in ks : m <= n
                 e == urlEnd(s, k)
             IN  SubSeq(s, i, k - 1) \o urlLink(SubSeq(s, k, e))
                 \o linkUrls(s, e + 1)

\* "bug\s+#([0-9]+)": the position of "#" when the match starts at i
bugHash(s, i) ==
    IF Char(s, i) = "b" /\ MatchAt(s, i, "bug")
    THEN LET w == runEnd(s, i + 3, Whitespace)
         IN  IF w >= i + 3 /\ CharIs(s, w + 1, {"#"}) THEN w + 1 ELSE 0
    ELSE 0

bugEnd(s, i) ==
    IF Char(s, i) = "b"
    THEN LET h == bugHash(s, i)
             d == runEnd(s, h + 1, Digits)
         IN  IF h > 0 /\ d >= h + 1 THEN d ELSE 0
    ELSE 0

\* r'<a href="https://bugs.gentoo.org/\1">bug #\1</a>'
bugLink(number) ==
    "<a href=\"https://bugs.gentoo.org/" \o number \o "\">bug #" \o number \o "</a>"

RECURSIVE linkBugs(_, _)
linkBugs(s, i) ==
    LET ks == { k \in i..Len(s) : bugEnd(s, k) > 0 }
    IN  IF ks = {} THEN From(s, i)
        ELSE LET k == CHOOSE m \in ks : \A n \in ks : m <= n
                 e == bugEnd(s, k)
             IN  SubSeq(s, i, k - 1) \o bugLink(SubSeq(s, bugHash(s, k) + 1, e))
                 \o linkBugs(s, e + 1)

\* "(\s)([a-z1]+[-][a-z0-9]+/[a-z0-9-]+)([\s,.:;!?])": the position of the
\* last character of group 2 when the match starts at i.  Group 1 is s[i],
\* group 3 the character after group 2.
packageEnd(s, i) ==
    IF Char(s, i) \in Whitespace
    THEN LET a == runEnd(s, i + 1, LowerLetters \cup {"1"})
             b == runEnd(s, a + 2, LowerLetters \cup Digits)
             c == runEnd(s, b + 2, LowerLetters \cup Digits \cup {"-"})
         IN  IF /\ a >= i + 1 /\ CharIs(s, a + 1, {"-"})
                /\ b >= a + 2 /\ CharIs(s, b + 1, {"/"})
                /\ c >= b + 2
                /\ CharIs(s, c + 1, Whitespace \cup {",", ".", ":", ";", "!", "?"})
             THEN c
             ELSE 0
    ELSE 0

\* r'\1<a href="http://packages.gentoo.org/package/\2">\2</a>\3'
packageLink(before, atom, after) ==
    before \o "<a href=\"http://packages.gentoo.org/package/" \o atom \o "\">"
    \o atom \o "</a>" \o after

RECURSIVE linkPackages(_, _)
linkPackages(s, i) ==
    LET ks == { k \in i..Len(s) : packageEnd(s, k) > 0 }
    IN  IF ks = {} THEN From(s, i)
        ELSE LET k == CHOOSE m \in ks : \A n \in ks : m <= n
                 e == packageEnd(s, k)
             IN  SubSeq(s, i, k - 1)
                 \o packageLink(Char(s, k), SubSeq(s, k + 1, e), Char(s, e + 1))
                 \o linkPackages(s, e + 2)

\* The four re.sub calls, in the order of the code.
substitute(s) ==
    LET noAnsi   == stripAnsi(s, 1)
        urls     == linkUrls(noAnsi, 1)
        bugs     == linkBugs(urls, 1)
    IN  linkPackages(bugs, 1)

\* _html without the file: the document made from the raw lines of a file.
RECURSIVE htmlLines(_, _)
htmlLines(ls, raws) ==
    IF raws = <<>> THEN ls ELSE htmlLines(loopBody(ls, Head(raws)), Tail(raws))

htmlText(raws) ==
    substitute(join(linesep, htmlLines(<<>>, raws) \o <<"</p>", "">>))

(***************************************************************************)
(* The state machine.                                                      *)
(***************************************************************************)
\* No window: the file is classified and rendered on its own.
NoWindow ==
    /\ disk = {}
    /\ locked = {}
    /\ rows = <<>>
    /\ selection = <<>>
    /\ current = ""
    /\ gpc = "idle"
    /\ skipped = 0
    /\ savedrow = 0
    /\ atStart = [rows |-> <<>>, disk |-> {}, selection |-> <<>>]

\* A plain .log file that opens.
Init ==
    /\ filename = "cat:pkg:20200101-000000.log"
    /\ openable = TRUE
    /\ content \in { FileContent(ls) : ls \in LineSeqs(MaxLines) }
    /\ pc = "start"
    /\ eclass = "None"
    /\ elogfile = ""
    /\ lines = <<>>
    /\ text = ""
    /\ NoWindow

\* Elog.fromFilename(filename): read the whole file and classify it.  The
\* fields taken from the file name (category, package, date) are not part of
\* the state modelled here.
fromFilename ==
    /\ pc = "start"
    /\ eclass' = getClass(decode(_file(filename, openable, content)))
    /\ pc' = "elog"
    /\ UNCHANGED <<filename, openable, content, elogfile, lines, text>>
    /\ UNCHANGED guiVars

\* _html(filename): lines = [] and the file is opened.
htmlOpen ==
    /\ pc = "elog"
    /\ lines' = <<>>
    /\ elogfile' = _file(filename, openable, content)
    /\ pc' = "loop"
    /\ UNCHANGED <<filename, openable, content, eclass, text>>
    /\ UNCHANGED guiVars

\* One iteration of `for line in elogfile`; an exception that the handler
\* does not catch ends _html without a result.
htmlLine ==
    /\ pc = "loop"
    /\ elogfile # ""
    /\ IF propagates(readline(elogfile))
       THEN /\ pc' = "raised"
            /\ UNCHANGED <<lines, elogfile>>
       ELSE /\ lines' = loopBody(lines, readline(elogfile))
            /\ elogfile' = From(elogfile, LineEnd(elogfile) + 1)
            /\ pc' = pc
    /\ UNCHANGED <<filename, openable, content, eclass, text>>
    /\ UNCHANGED guiVars

\* The file is exhausted: the closing appends, the join and the
\* substitutions; `text` is what _html returns.
htmlReturn ==
    /\ pc = "loop"
    /\ elogfile = ""
    /\ lines' = lines \o <<"</p>", "">>
    /\ text' = substitute(join(linesep, lines'))
    /\ pc' = "done"
    /\ UNCHANGED <<filename, openable, content, eclass, elogfile>>
    /\ UNCHANGED guiVars

Next ==
    \/ fromFilename
    \/ htmlOpen
    \/ htmlLine
    \/ htmlReturn

Spec == Init /\ [][Next]_vars

\* The same program on the files made of LinkLines.
InitLinks ==
    /\ filename = "cat:pkg:20200101-000000.log"
    /\ openable = TRUE
    /\ content \in { FileContent(ls) : ls \in LineSeqsOf(LinkLines, MaxLinkLines) }
    /\ pc = "start"
    /\ eclass = "None"
    /\ elogfile = ""
    /\ lines = <<>>
    /\ text = ""
    /\ NoWindow

SpecLinks == InitLinks /\ [][Next]_vars

\* The same program on files of every name, that open or do not.
InitFile ==
    /\ filename \in FileNames
    /\ openable \in BOOLEAN
    /\ content \in { FileContent(ls) : ls \in LineSeqsOf(FileLines, MaxLines) }
    /\ pc = "start"
    /\ eclass = "None"
    /\ elogfile = ""
    /\ lines = <<>>
    /\ text = ""
    /\ NoWindow

SpecFile == InitFile /\ [][Next]_vars

(***************************************************************************)
(* class Elogviewer: the table of elogs and the delete action.  A row is   *)
(* known by the name of its file; the sorting proxy is taken to keep the   *)
(* order of the model, row numbers count from 0 as in the code.            *)
(***************************************************************************)
MaxFiles == 3

AllFiles ==
    << "cat:a:20200101-000000.log", "cat:b:20200102-000000.log",
       "cat:c:20200103-000000.log", "cat:d:20200104-000000.log",
       "cat:e:20200105-000000.log" >>

GuiFiles == { AllFiles[i] : i \in 1..MaxFiles }

\* The files of the rows, in the order of the rows.
filenames(rs) == [k \in DOMAIN rs |-> rs[k].filename]

Range(seq) == { seq[k] : k \in DOMAIN seq }

\* index.row() of the row of file f
RowOf(rs, f) == (CHOOSE k \in DOMAIN rs : rs[k].filename = f) - 1

\* Elogviewer.rowCount / elogCount
rowCount(rs) == Len(rs)

\* ElogRowItem.readState
readState(rs, f) == rs[RowOf(rs, f) + 1].readState

\* ElogRowItem.setReadState
setReadState(rs, f, state) ==
    [k \in DOMAIN rs |->
        IF rs[k].filename = f THEN [rs[k] EXCEPT !.readState = state] ELSE rs[k]]

\* Mutant of onCurrentRowChanged: the row that is entered is not marked.
onCurrentRowChangedNoMark(rs, cur, prev) ==
    IF prev = "" THEN rs
    ELSE IF readState(rs, prev) = "PartiallyChecked"
         THEN setReadState(rs, prev, "Checked")
         ELSE rs

\* Elogviewer.onCurrentRowChanged(current, previous); "" is the invalid
\* index, whose row() is -1 and whose item is a fresh ElogItem.
onCurrentRowChanged(rs, cur, prev) ==
    IF prev = "" THEN rs
    ELSE LET marked == IF cur # "" /\ readState(rs, cur) = "Unchecked"
                       THEN setReadState(rs, cur, "PartiallyChecked")
                       ELSE rs
         IN  IF readState(marked, prev) = "PartiallyChecked"
             THEN setReadState(marked, prev, "Checked")
             ELSE marked

\* selectionModel().setCurrentIndex: currentRowChanged is emitted when the
\* row changes.
setCurrentRow(rs, cur, prev) ==
    IF cur = prev THEN rs ELSE onCurrentRowChanged(rs, cur, prev)

\* Elogviewer.removeRow
removeRow(rs, f) == SelectSeq(rs, LAMBDA r : r.filename # f)

\* The selection after the row of f is removed from the model.
deselect(sel, f) == SelectSeq(sel, LAMBDA g : g # f)

\* Mutant of osRemove: the file is left on disk.
osRemoveNothing(files, f) == files

\* if os.path.exists(filename): os.remove(filename)
osRemove(files, f) == files \ {f}

\* The row the selection model makes current when the current row f is
\* removed: the row above it, else the row below it, else none.
neighbour(rs, f) ==
    LET row == RowOf(rs, f)
    IN  IF row > 0 THEN rs[row].filename
        ELSE IF row + 2 <= Len(rs) THEN rs[row + 2].filename
        ELSE ""

\* The selections of rows: the files of distinct rows, in the order in
\* which they were added to the selection.
Selections(rs) ==
    UNION { { sel \in [1..n -> Range(filenames(rs))] :
                \A i, j \in 1..n : i # j => sel[i] # sel[j] } :
            n \in 0..Len(rs) }

\* The window after construction: populate() has made one row per file,
\* read or unread by the saved readFlag, and selectRow(0) has selected the
\* first row and made it current (there is no previous row, so the read
\* state of no row changes).  At most one file cannot be removed.
InitGui ==
    /\ filename = ""
    /\ openable = FALSE
    /\ content = ""
    /\ pc = "done"
    /\ eclass = "None"
    /\ elogfile = ""
    /\ lines = <<>>
    /\ text = ""
    /\ disk = GuiFiles
    /\ locked \in { {} } \cup { {f} : f \in GuiFiles }
    /\ rows \in { [k \in 1..MaxFiles |->
                       [filename |-> AllFiles[k], readState |-> r[k],
                        importantState |-> "Unchecked"]] :
                     r \in [1..MaxFiles -> { "Unchecked", "Checked" }] }
    /\ selection = << AllFiles[1] >>
    /\ current = AllFiles[1]
    /\ gpc = "idle"
    /\ skipped = 0
    /\ savedrow = 0
    /\ atStart = [rows |-> <<>>, disk |-> {}, selection |-> <<>>]

\* The user selects rows in the table (click, Ctrl+click, Ctrl+A): any
\* rows, any of them or none becoming the current row.
userSelect ==
    /\ gpc = "idle"
    /\ \E sel \in Selections(rows), cur \in Range(filenames(rows)) \cup {current} :
           /\ selection' = sel
           /\ current' = cur
           /\ rows' = setCurrentRow(rows, cur, current)
    /\ atStart' = [rows |-> <<>>, disk |-> {}, selection |-> <<>>]
    /\ UNCHANGED <<disk, locked, gpc, skipped, savedrow>>
    /\ UNCHANGED elogVars

\* deleteSelected, up to the while loop: selection[len(selection)-1] raises
\* IndexError when nothing is selected.
deleteStart ==
    /\ gpc = "idle"
    /\ IF selection = <<>>
       THEN /\ gpc' = "IndexError"
            /\ UNCHANGED <<skipped, savedrow, atStart>>
       ELSE /\ savedrow' = RowOf(rows, selection[Len(selection)]) + 1
            /\ skipped' = 0
            /\ atStart' = [rows |-> rows, disk |-> disk, selection |-> selection]
            /\ gpc' = "while"
    /\ UNCHANGED <<disk, locked, rows, selection, current>>
    /\ UNCHANGED elogVars

\* Between two passes of the loop another process removes the file of the
\* row that is tried next: os.path.exists is then False for it.
fileVanishes ==
    /\ gpc = "while"
    /\ Len(selection) > skipped
    /\ selection[1 + skipped] \in disk
    /\ disk' = disk \ { selection[1 + skipped] }
    /\ UNCHANGED <<locked, rows, selection, current, gpc, skipped, savedrow, atStart>>
    /\ UNCHANGED elogVars

\* Mutant of deleteRow: the handler of the failed removal does not count
\* the row as skipped.
deleteRowNoSkip ==
    /\ gpc = "while"
    /\ Len(selection) > skipped
    /\ LET f      == selection[1 + skipped]
           shown  == setCurrentRow(rows, f, current)
       IN  IF f \in disk /\ f \in locked
           THEN /\ gpc' = "messagebox"
                /\ rows' = shown
                /\ current' = f
                /\ UNCHANGED <<disk, savedrow, selection, skipped>>
           ELSE /\ disk' = osRemove(disk, f)
                /\ savedrow' = IF RowOf(rows, f) < savedrow THEN savedrow - 1 ELSE savedrow
                /\ selection' = deselect(selection, f)
                /\ \/ /\ current' = neighbour(shown, f)
                      /\ rows' = removeRow(onCurrentRowChanged(shown, current', f), f)
                   \/ /\ current' = ""
                      /\ rows' = removeRow(shown, f)
                /\ UNCHANGED <<skipped, gpc>>
    /\ UNCHANGED <<locked, atStart>>
    /\ UNCHANGED elogVars

\* One pass of the while loop: the first selected row that was not skipped
\* becomes current, its file is removed and then its row; when os.remove
\* raises, the row is skipped and the message box opens.  When the current
\* row is removed the selection model either moves to a neighbour (and
\* emits currentRowChanged) or is left with an invalid index: the index it
\* was given is one of the source model, not of the proxy.
deleteRow ==
    /\ gpc = "while"
    /\ Len(selection) > skipped
    /\ LET f      == selection[1 + skipped]
           shown  == setCurrentRow(rows, f, current)
       IN  IF f \in disk /\ f \in locked
           THEN /\ skipped' = skipped + 1
                /\ gpc' = "messagebox"
                /\ rows' = shown
                /\ current' = f
                /\ UNCHANGED <<disk, savedrow, selection>>
           ELSE /\ disk' = osRemove(disk, f)
                /\ savedrow' = IF RowOf(rows, f) < savedrow THEN savedrow - 1 ELSE savedrow
                /\ selection' = deselect(selection, f)
                /\ \/ /\ current' = neighbour(shown, f)
                      /\ rows' = removeRow(onCurrentRowChanged(shown, current', f), f)
                   \/ /\ current' = ""
                      /\ rows' = removeRow(shown, f)
                /\ UNCHANGED <<skipped, gpc>>
    /\ UNCHANGED <<locked, atStart>>
    /\ UNCHANGED elogVars

\* messagebox.exec(): Continue goes on with the loop, Abort (disabled when
\* no row is left to try) breaks out of it.
messagebox ==
    /\ gpc = "messagebox"
    /\ \/ gpc' = "while"
       \/ Len(selection) - skipped # 0 /\ gpc' = "after"
    /\ UNCHANGED <<disk, locked, rows, selection, current, skipped, savedrow, atStart>>
    /\ UNCHANGED elogVars

\* After the loop: with rows still selected the one added last becomes
\* current; with none the selection model is reset and the remembered row
\* is selected (selectRow(-1) selects nothing).  The handler returns: its
\* locals are gone.
deleteEnd ==
    /\ \/ gpc = "while" /\ Len(selection) <= skipped
       \/ gpc = "after"
    /\ IF Len(selection) > 0
       THEN /\ current' = selection[Len(selection)]
            /\ rows' = setCurrentRow(rows, current', current)
            /\ UNCHANGED selection
       ELSE LET row == IF savedrow < rowCount(rows) - 1 THEN savedrow
                       ELSE rowCount(rows) - 1
            IN  /\ current' = IF row < 0 THEN "" ELSE rows[row + 1].filename
                /\ selection' = IF row < 0 THEN <<>> ELSE << rows[row + 1].filename >>
                /\ UNCHANGED rows
    /\ gpc' = "idle"
    /\ skipped' = 0
    /\ savedrow' = 0
    /\ atStart' = [rows |-> <<>>, disk |-> {}, selection |-> <<>>]
    /\ UNCHANGED <<disk, locked>>
    /\ UNCHANGED elogVars

NextGui ==
    \/ userSelect
    \/ deleteStart
    \/ fileVanishes
    \/ deleteRow
    \/ messagebox
    \/ deleteEnd

SpecGui == InitGui /\ [][NextGui]_vars

(***************************************************************************)
(* class Elogviewer: the read and important flags, and refresh.  The elog  *)
(* directory holds files with the names portage gives them, at its top     *)
(* level or in a directory per category, and a file that is no elog.       *)
(***************************************************************************)
MaxElogs == 2

WindowFiles ==
    << "cat:a:20200101-000000.log", "cat/b:20200102-000000.log.gz",
       "cat:c:20200103-000000.log", "cat/d:20200104-000000.log" >>

ElogFiles == { WindowFiles[i] : i \in 1..MaxElogs }

OtherFiles == { "summary.log" }

\* The directory listing, in the order the file system gives it.
Listing == WindowFiles \o << "summary.log" >>

\* The positions of the colons of a name.
colonsOf(s) == { i \in 1..Len(s) : Char(s, i) = ":" }

\* The positions of the slashes of a name.
slashesOf(s) == { i \in 1..Len(s) : Char(s, i) = "/" }

\* fnmatch(base, "*:*.log*")
matchesColonLog(base) ==
    \E i \in colonsOf(base) :
        \E j \in (i + 1)..Len(base) : MatchAt(base, j, ".log")

\* fnmatch(base, "*:*:*.log*")
matchesColonColonLog(base) ==
    \E i \in colonsOf(base) : matchesColonLog(From(base, i + 1))

\* The names of the listing that match "*:*:*.log*" at the top level of
\* elogpath.
TopNames ==
    { f \in Range(Listing) : slashesOf(f) = {} /\ matchesColonColonLog(f) }

\* The names of the listing that match "*:*.log*" in a directory of
\* elogpath.
SubNames ==
    { f \in Range(Listing) :
        /\ Cardinality(slashesOf(f)) = 1
        /\ LET p == CHOOSE i \in slashesOf(f) : TRUE
           IN  p > 1 /\ matchesColonLog(From(f, p + 1)) }

\* glob(os.path.join(elogpath, "*:*:*.log*")), names relative to elogpath
globTop(files) == SelectSeq(Listing, LAMBDA f : f \in files /\ f \in TopNames)

\* glob(os.path.join(elogpath, "*", "*:*.log*"))
globSub(files) == SelectSeq(Listing, LAMBDA f : f \in files /\ f \in SubNames)

\* Mutant of glob: the files in the category directories are not listed.
globTopOnly(files) == globTop(files)

\* The two globs of populate, the top level first.
glob(files) == globTop(files) \o globSub(files)

\* ElogRowItem.importantState
importantState(rs, f) == rs[RowOf(rs, f) + 1].importantState

\* ElogRowItem.toggleImportantState
toggleImportantState(rs, f) ==
    [k \in DOMAIN rs |->
        IF rs[k].filename = f
        THEN [rs[k] EXCEPT !.importantState =
                 IF @ = "Checked" THEN "Unchecked" ELSE "Checked"]
        ELSE rs[k]]

\* Elogviewer.readCount: the rows whose read state is not Unchecked
readCount(rs) ==
    Cardinality({ k \in DOMAIN rs : rs[k].readState # "Unchecked" })

\* Mutant of setSelectedReadState: only the first selected row is set.
setSelectedReadStateFirst(rs, sel, state) ==
    IF sel = <<>> THEN rs ELSE setReadState(rs, sel[1], state)

\* Elogviewer.setSelectedReadState: every selected row gets the state
setSelectedReadState(rs, sel, state) ==
    [k \in DOMAIN rs |->
        IF rs[k].filename \in Range(sel)
        THEN [rs[k] EXCEPT !.readState = state]
        ELSE rs[k]]

\* Elogviewer.saveSettings: the files of the rows that are Checked
saveSettings(rs) ==
    [readFlag      |-> { rs[k].filename : k \in { j \in DOMAIN rs : rs[j].readState = "Checked" } },
     importantFlag |-> { rs[k].filename : k \in { j \in DOMAIN rs : rs[j].importantState = "Checked" } }]

\* populate: the rows made from the files on disk and the saved flags
populated(files, settings) ==
    LET names == glob(files)
    IN  [k \in DOMAIN names |->
            [filename       |-> names[k],
             readState      |-> IF names[k] \in settings.readFlag
                                THEN "Checked" ELSE "Unchecked",
             importantState |-> IF names[k] \in settings.importantFlag
                                THEN "Checked" ELSE "Unchecked"]]

\* tableView.selectRow(row) after the selection model was reset: the file
\* of the row that becomes current and selected, "" when there is no such
\* row.
selectRow(rs, row) ==
    IF row >= 0 /\ row < Len(rs) THEN rs[row + 1].filename ELSE ""

\* The window after construction: populate() with the flags saved by an
\* earlier session, then selectRow(0).
InitWindow ==
    /\ filename = ""
    /\ openable = FALSE
    /\ content = ""
    /\ pc = "done"
    /\ eclass = "None"
    /\ elogfile = ""
    /\ lines = <<>>
    /\ text = ""
    /\ disk = ElogFiles \cup OtherFiles
    /\ locked = {}
    /\ \E readFlag \in SUBSET ElogFiles, importantFlag \in SUBSET ElogFiles :
           rows = populated(disk, [readFlag |-> readFlag, importantFlag |-> importantFlag])
    /\ current = selectRow(rows, 0)
    /\ selection = << current >>
    /\ gpc = "idle"
    /\ skipped = 0
    /\ savedrow = 0
    /\ atStart = [rows |-> <<>>, disk |-> {}, selection |-> <<>>]

\* markReadAction: setSelectedReadState(Qt.Checked); atStart keeps the rows
\* and the selection the action found.
markRead ==
    /\ gpc = "idle"
    /\ UNCHANGED <<disk, locked, selection, current, gpc, skipped, savedrow>>
    /\ rows' = setSelectedReadState(rows, selection, "Checked")
    /\ atStart' = [rows |-> rows, disk |-> disk, selection |-> selection]
    /\ UNCHANGED elogVars

\* markUnreadAction: setSelectedReadState(Qt.Unchecked)
markUnread ==
    /\ gpc = "idle"
    /\ UNCHANGED <<disk, locked, selection, current, gpc, skipped, savedrow>>
    /\ rows' = setSelectedReadState(rows, selection, "Unchecked")
    /\ atStart' = [rows |-> rows, disk |-> disk, selection |-> selection]
    /\ UNCHANGED elogVars

RECURSIVE toggleAll(_, _)
\* The loop of toggleSelectedImportantState over the selected rows.
toggleAll(rs, sel) ==
    IF sel = <<>> THEN rs
    ELSE toggleAll(toggleImportantState(rs, Head(sel)), Tail(sel))

\* Elogviewer.toggleSelectedImportantState
toggleSelectedImportantState ==
    /\ gpc = "idle"
    /\ rows' = toggleAll(rows, selection)
    /\ atStart' = [rows |-> <<>>, disk |-> {}, selection |-> <<>>]
    /\ UNCHANGED <<disk, locked, selection, current, gpc, skipped, savedrow>>
    /\ UNCHANGED elogVars

\* Elogviewer.refresh: saveSettings(), then populate(): the selection
\* model is reset, the rows are made anew, and the row with the number of
\* the old current row (the last row when there are fewer) is selected;
\* its previous row is invalid, so no read state changes.
refresh ==
    /\ gpc = "idle"
    /\ LET currentRow == IF current = "" THEN -1 ELSE RowOf(rows, current)
           made       == populated(disk, saveSettings(rows))
           row        == IF currentRow < rowCount(made) - 1
                         THEN currentRow ELSE rowCount(made) - 1
       IN  /\ rows' = made
           /\ current' = selectRow(made, row)
           /\ selection' = IF current' = "" THEN <<>> ELSE << current' >>
    /\ atStart' = [rows |-> <<>>, disk |-> {}, selection |-> <<>>]
    /\ UNCHANGED <<disk, locked, gpc, skipped, savedrow>>
    /\ UNCHANGED elogVars

\* portage writes an elog, or a removed one is restored.
fileCreated ==
    /\ gpc = "idle"
    /\ \E f \in ElogFiles \ disk : disk' = disk \cup {f}
    /\ atStart' = [rows |-> <<>>, disk |-> {}, selection |-> <<>>]
    /\ UNCHANGED <<locked, rows, selection, current, gpc, skipped, savedrow>>
    /\ UNCHANGED elogVars

\* Another process removes an elog file.
fileRemoved ==
    /\ gpc = "idle"
    /\ \E f \in ElogFiles \cap disk : disk' = disk \ {f}
    /\ atStart' = [rows |-> <<>>, disk |-> {}, selection |-> <<>>]
    /\ UNCHANGED <<locked, rows, selection, current, gpc, skipped, savedrow>>
    /\ UNCHANGED elogVars

NextWindow ==
    \/ userSelect
    \/ markRead
    \/ markUnread
    \/ toggleSelectedImportantState
    \/ refresh
    \/ fileCreated
    \/ fileRemoved

SpecWindow == InitWindow /\ [][NextWindow]_vars

(***************************************************************************)
(* What the claims speak of.                                               *)
(***************************************************************************)
\* The lines of the file, without their newlines.
inputLines ==
    LET parts == split(content, "\n") IN SubSeq(parts, 1, Len(parts) - 1)

\* The lines _html has read so far, as the loop body sees them.
processed ==
    LET all    == inputLines
        unread == split(elogfile, "\n")
        n      == Len(all) - (Len(unread) - 1)
    IN  [k \in 1..n |-> decode(strip(all[k]))]

\* The line the next iteration of the loop handles.
nextLine == decode(strip(readline(elogfile)))

\* The entries of `lines` that are not block-close delimiters: the header
\* and body fragments.
fragments == SelectSeq(lines, LAMBDA l : l # "</p>")

Markers == { "ERROR", "WARN", "LOG", "INFO", "QA" }

markerOf(e) ==
    CASE e = "Error"   -> "ERROR"
      [] e = "Warning" -> "WARN"
      [] e = "Log"     -> "LOG"
      [] e = "Info"    -> "INFO"
      [] e = "QA"      -> "QA"

Occurs(p, s) == \E i \in 1..Len(s) : MatchAt(s, i, p)

\* The classes whose marker, with its colon, occurs somewhere in s.
present(s) == { e \in EClassNames : Occurs(markerOf(e) \o ":", s) }

\* The classes whose marker stands at the start of a line of s and is
\* followed by a colon and whitespace.
anchored(s) ==
    { e \in EClassNames :
        \E i \in 1..Len(s) :
            /\ i = 1 \/ Char(s, i - 1) = "\n"
            /\ MatchAt(s, i, markerOf(e) \o ":")
            /\ CharIs(s, i + Len(markerOf(e)) + 1, Whitespace) }

IsHighest(e, classes) ==
    e \in classes /\ \A other \in classes : EClass[other] <= EClass[e]

ColonCount(line) == Cardinality({ i \in 1..Len(line) : Char(line, i) = ":" })

FirstColon(line) ==
    CHOOSE i \in 1..Len(line) :
        Char(line, i) = ":" /\ \A k \in 1..(i - 1) : Char(line, k) # ":"

\* The class whose marker and a colon begin the line, "None" without one.
leadingMarker(line) ==
    IF \E e \in EClassNames : MatchAt(line, 1, markerOf(e) \o ":")
    THEN CHOOSE e \in EClassNames : MatchAt(line, 1, markerOf(e) \o ":")
    ELSE "None"

IsHeader(fragment) == MatchAt(fragment, 1, "<h3 ")

\* The header fragment of the section that is open, "" before any header.
lastHeader(ls) ==
    LET hs == { k \in DOMAIN ls : IsHeader(ls[k]) }
    IN  IF hs = {} THEN "" ELSE ls[CHOOSE k \in hs : \A j \in hs : j <= k]

(***************************************************************************)
(* Classification                                                          *)
(***************************************************************************)
\* C1: when at least one of the markers "ERROR:", "WARN:", "LOG:", "INFO:",
\* "QA:" occurs in the text, the class of the elog is the class of the
\* highest-ranked marker that occurs (Error > Warning > Log > Info > QA),
\* wherever in the text and in whatever order the markers stand.
C1_HighestMarkerWins ==
    pc = "elog" /\ present(content) # {} => IsHighest(eclass, present(content))

C1_Witness ==
    /\ pc = "elog"
    /\ content \in { "WARN: x\nERROR: x\n", "ERROR: x\nWARN: x\n" }
    /\ eclass = "Error"

\* C2: a marker counts only at the start of a line and followed by a colon
\* and whitespace: the class of the elog is decided by those markers alone
\* (the highest of them, the default class when there is none).
C2_OnlyAnchoredMarkersCount ==
    pc = "elog" =>
        IF anchored(content) = {}
        THEN eclass = HighestClass(<<>>)
        ELSE IsHighest(eclass, anchored(content))

\* C3: a text that holds none of the five markers is of class Log.
C3_DefaultIsLog ==
    pc = "elog" /\ present(content) = {} => eclass = "Log"

\* A line whose word before the first colon is a marker in the wrong case.
WrongCase(line) ==
    /\ ColonCount(line) > 0
    /\ SubSeq(line, 1, FirstColon(line) - 1) \notin Markers
    /\ upper(SubSeq(line, 1, FirstColon(line) - 1)) \in Markers

\* C4: markers are matched case-sensitively: the lines that begin with a
\* marker in lower or mixed case contribute nothing, the class of the elog
\* is the class of the text without those lines.
C4_WrongCaseNeverCounts ==
    pc = "elog" /\ (\E k \in DOMAIN inputLines : WrongCase(inputLines[k])) =>
        eclass = getClass(FileContent(SelectSeq(inputLines, LAMBDA l : ~WrongCase(l))))

C4_Witness ==
    /\ pc = "elog"
    /\ content = "QA: x\nWARN: x\nError: x\n"
    /\ eclass = "Warning"

(***************************************************************************)
(* Rendering                                                               *)
(***************************************************************************)
\* C5: the rendered document has as many block opens (<p ...>) as block
\* closes (</p>), and no close stands before its open.
C5_BalancedBlocks ==
    pc = "done" =>
        LET opens  == { i \in 1..Len(text) : MatchAt(text, i, "<p ") }
            closes == { i \in 1..Len(text) : MatchAt(text, i, "</p>") }
        IN  /\ Cardinality(opens) = Cardinality(closes)
            /\ \A c \in closes :
                   Cardinality({ d \in closes : d <= c })
                       <= Cardinality({ o \in opens : o < c })

\* C6: blank lines leave no trace: the document of a file is the document
\* of the file without its blank lines.
C6_BlankLinesLeaveNoTrace ==
    pc = "done" =>
        text = htmlText(SelectSeq(inputLines, LAMBDA l : strip(l) # ""))

\* The fragment of a line: its body line, or a header that carries the text
\* after its first colon.
IsFragmentOf(fragment, line) ==
    \/ fragment = line \o " <br />"
    \/ /\ ColonCount(line) > 0
       /\ \E e \in EClassNames :
              fragment = sectionHeader(e, From(line, FirstColon(line) + 1))

\* C7: the k-th fragment of the output is the fragment of the k-th line
\* read, a header or the line's content followed by the line-break marker:
\* no line is dropped, duplicated or reordered.
C7_OneFragmentPerLine ==
    pc = "loop" =>
        LET read == processed
            out  == fragments
        IN  /\ Len(out) = Len(read)
            /\ \A k \in DOMAIN read :
                   read[k] # "" => IsFragmentOf(out[k], read[k])

C7_Witness ==
    /\ pc = "loop"
    /\ elogfile = ""
    /\ content = "XXX: x\nLOG: x\nx ERROR: y\n"
    /\ fragments = <<"XXX: x <br />", sectionHeader("Log", " x"), "x ERROR: y <br />">>

\* A body section is open: a header has been emitted and the last entry of
\* `lines` is a body line.
BodyOpen ==
    /\ lastHeader(lines) # ""
    /\ lines[Len(lines)] # "</p>"
    /\ ~IsHeader(lines[Len(lines)])

\* A line that begins with a marker and a colon and holds further colons.
LooksLikeHeader(line) == leadingMarker(line) # "None" /\ ColonCount(line) > 1

\* C8: while a body section is open, a line that begins with a marker and a
\* colon and holds further colons is appended as a body line: _html stays in
\* the loop, emits no header and no block delimiter, and the open section
\* keeps its header (its severity).
C8_NotAHeaderStaysBody ==
    [][ pc = "loop" /\ elogfile # "" /\ BodyOpen /\ LooksLikeHeader(nextLine) =>
            /\ pc' = "loop"
            /\ lines' = Append(lines, nextLine \o " <br />")
            /\ lastHeader(lines') = lastHeader(lines) ]_vars

C8_Witness ==
    /\ pc = "loop"
    /\ elogfile = ""
    /\ Len(processed) = 3
    /\ LooksLikeHeader(processed[3])
    /\ lines = <<sectionHeader("Log", " x"), "XXX: x <br />", processed[3] \o " <br />">>

\* C9 as claimed: every line that begins with a marker and a colon is a
\* header whose stage is everything after the first colon.
C9_SplitAtFirstColon ==
    pc = "loop" =>
        LET read == processed
            out  == fragments
        IN  \A k \in DOMAIN read :
                leadingMarker(read[k]) # "None" =>
                    out[k] = sectionHeader(leadingMarker(read[k]),
                                           From(read[k], FirstColon(read[k]) + 1))

\* C9 amended: a line that begins with a marker and a colon is a header only
\* when it holds no further colon, and its stage is then everything after
\* the colon; with further colons it is emitted as a body line.
C9_HeaderHasOneColon ==
    pc = "loop" =>
        LET read == processed
            out  == fragments
        IN  \A k \in DOMAIN read :
                leadingMarker(read[k]) # "None" =>
                    out[k] = IF ColonCount(read[k]) = 1
                             THEN sectionHeader(leadingMarker(read[k]),
                                                From(read[k], FirstColon(read[k]) + 1))
                             ELSE read[k] \o " <br />"

C9_Witness ==
    /\ pc = "loop"
    /\ elogfile = ""
    /\ content = "LOG:x\nWARN: x: y\n"
    /\ lines = <<sectionHeader("Log", "x"), "WARN: x: y <br />">>

\* A line "WORD: text" whose WORD is none of the five markers.
NotAMarkerLine(line) ==
    ColonCount(line) > 0 /\ SubSeq(line, 1, FirstColon(line) - 1) \notin Markers

\* C10: a line "WORD: text" whose WORD is not exactly one of the markers is
\* appended as a body line: no header and no block delimiter is emitted and
\* the open section keeps its header (its severity).
C10_UnknownWordStaysBody ==
    [][ pc = "loop" /\ elogfile # "" /\ NotAMarkerLine(nextLine) =>
            /\ lines' = Append(lines, nextLine \o " <br />")
            /\ lastHeader(lines') = lastHeader(lines) ]_vars

C10_Witness ==
    /\ pc = "loop"
    /\ elogfile = ""
    /\ content = "ERROR: x\nError: x\n"
    /\ lines = <<sectionHeader("Error", " x"), "Error: x <br />">>

(***************************************************************************)
(* Sections and their colours                                              *)
(***************************************************************************)
\* The first line that is not blank, "" when there is none.
firstNonBlank(ls) ==
    LET nb == SelectSeq(ls, LAMBDA l : strip(l) # "")
    IN  IF nb = <<>> THEN "" ELSE nb[1]

\* The delimiter that opens a body block in the colour of class e.
blockOpen(e) == "<p style=\"color: " \o htmlColor(e) \o "\">"

\* C11: when the first non-blank line of the file is not a header, the
\* document opens a body block in the colour of the default class before
\* the content of that line.
C11_LeadingBodyOpensDefaultBlock ==
    pc = "done" =>
        LET first == decode(strip(firstNonBlank(inputLines)))
        IN  first # "" /\ leadingMarker(first) = "None" =>
                \E i \in 1..Len(text) :
                    /\ MatchAt(text, i, blockOpen(HighestClass(<<>>)))
                    /\ \E j \in (i + 1)..Len(text) : MatchAt(text, j, first)

\* The lines among ls that are headers: a marker, one colon, a stage.
headerLines(ls) ==
    { k \in DOMAIN ls : leadingMarker(ls[k]) # "None" /\ ColonCount(ls[k]) = 1 }

Max(S) == CHOOSE m \in S : \A n \in S : n <= m

Min(S) == CHOOSE m \in S : \A n \in S : m <= n

\* C12: a body line read after a header lies in a body block that is open
\* (no close since the header fragment) and whose colour is the colour of
\* the class of the most recent header line; the header fragment shows the
\* name of that class followed by the stage of the header line.
C12_BodyInBlockOfLastHeader ==
    pc = "loop" =>
        LET read == processed
            hs   == headerLines(read)
        IN  hs # {} /\ Len(read) \notin hs =>
                LET h      == read[Max(hs)]
                    e      == leadingMarker(h)
                    header == lastHeader(lines)
                    at     == Max({ k \in DOMAIN lines : IsHeader(lines[k]) })
                IN  /\ lines[Len(lines)] = read[Len(read)] \o " <br />"
                    /\ \A k \in at..Len(lines) : lines[k] # "</p>"
                    /\ Occurs(">" \o e \o ": " \o From(h, FirstColon(h) + 1) \o "</h3>", header)
                    /\ MatchAt(header, Len(header) - Len(blockOpen(e)) + 1, blockOpen(e))

C12_Witness ==
    /\ pc = "loop"
    /\ elogfile = ""
    /\ content = "LOG: x\nERROR: x\nXXX: x\n"
    /\ lines = <<sectionHeader("Log", " x"), "</p>",
                 sectionHeader("Error", " x"), "XXX: x <br />">>
    /\ Occurs("<p style=\"color: #ff0000\">", lines[3])

\* The class whose name the first header fragment of ls shows.
firstHeaderClass(ls) ==
    LET first == ls[Min({ k \in DOMAIN ls : IsHeader(ls[k]) })]
    IN  CHOOSE e \in EClassNames : Occurs(">" \o e \o ": ", first)

\* The first non-blank line of the file is a header.
StartsWithHeader ==
    LET first == decode(strip(firstNonBlank(inputLines)))
    IN  leadingMarker(first) # "None" /\ ColonCount(first) = 1

\* C17 as claimed: for a file whose first non-blank line is a header, the
\* class of the elog is the class shown in the first header of the document.
C17_ClassIsFirstHeader ==
    pc = "done" /\ StartsWithHeader => eclass = firstHeaderClass(lines)

\* C17 amended: for a file whose first non-blank line is a header, the class
\* of the elog is never below the class shown in the first header of the
\* document, and the two are equal exactly when no marker of a higher class
\* occurs in the text.
C17_ClassAtLeastFirstHeader ==
    pc = "done" /\ StartsWithHeader =>
        LET shown == firstHeaderClass(lines)
        IN  /\ EClass[shown] <= EClass[eclass]
            /\ eclass = shown <=>
                   \A e \in present(content) : EClass[e] <= EClass[shown]

C17_Witness ==
    /\ pc = "done"
    /\ content = "QA: x\nERROR: x\n"
    /\ firstHeaderClass(lines) = "QA"
    /\ eclass = "Error"

(***************************************************************************)
(* Links and colour sequences                                              *)
(***************************************************************************)
Schemes == { "http://", "https://", "ftp://" }

\* The joined fragments, before and after the colour sequences are
\* stripped: what the link substitutions work on.
joined == join(linesep, lines)

\* A run of non-whitespace characters that begins with a scheme.
BeginsWithScheme(run) == \E p \in Schemes : MatchAt(run, 1, p)

\* The same with at least one character after the scheme.
IsUrlRun(run) == \E p \in Schemes : MatchAt(run, 1, p) /\ Len(run) > Len(p)

\* The text has no bug reference and no package atom (an atom needs a
\* hyphen): of the link substitutions only the one for URLs applies.
OnlyUrls(s) == ~Occurs("bug", s) /\ ~Occurs("Bug", s) /\ ~Occurs("-", s)

\* The line with every run that IsRun accepts made a hyperlink to itself,
\* and nothing else changed.
linkRuns(line, IsRun(_)) ==
    LET runs == split(line, " ")
    IN  join(" ", [k \in DOMAIN runs |->
                      IF IsRun(runs[k]) THEN urlLink(runs[k]) ELSE runs[k]])

linkedDocument(ls, IsRun(_)) ==
    join(linesep, [k \in DOMAIN ls |-> linkRuns(stripAnsi(ls[k], 1), IsRun)])

\* C13 as claimed: every maximal run of non-whitespace characters that
\* begins with http://, https:// or ftp:// is in the document as a hyperlink
\* whose target and visible text are that run, the text around it unchanged.
C13_EverySchemeRunLinked ==
    pc = "done" /\ OnlyUrls(content) =>
        text = linkedDocument(lines, BeginsWithScheme)

\* C13 amended: every maximal run of non-whitespace characters that begins
\* with http://, https:// or ftp:// and holds at least one character after
\* the scheme is in the document as a hyperlink whose target and visible
\* text are that run, the text around it unchanged; a run that is the bare
\* scheme is left as it is.  (The runs are those of the text with its
\* colour sequences stripped.)
C13_EveryUrlRunLinked ==
    pc = "done" /\ OnlyUrls(content) =>
        text = linkedDocument(lines, IsUrlRun)

C13_Witness ==
    /\ pc = "done"
    /\ content = "ftp://x https://y\nhttp://\n"
    /\ text = "<a href=\"ftp://x\">ftp://x</a> <a href=\"https://y\">https://y</a> <br />"
              \o "\nhttp:// <br />\n</p>\n"

\* The reference `word #number` stands in s, the number not cut short.
BugRefs(s) ==
    { <<w, n>> \in { "bug", "Bug", "BUG" } \X { "42", "7" } :
        \E i \in 1..Len(s) :
            /\ MatchAt(s, i, w \o " #" \o n)
            /\ ~CharIs(s, i + Len(w) + 2 + Len(n), Digits) }

\* C14: every reference "bug #N", the word in any letter case, is in the
\* document as a hyperlink to https://bugs.gentoo.org/N whose visible text
\* is the reference in its original case.
C14_BugAnyCaseLinked ==
    pc = "done" =>
        \A ref \in BugRefs(content) :
            Occurs("<a href=\"https://bugs.gentoo.org/" \o ref[2] \o "\">"
                   \o ref[1] \o " #" \o ref[2] \o "</a>", text)

\* Package atoms, each with its category/name (the atom without version).
Atoms ==
    { <<"dev-lang/python-3.11", "dev-lang/python">>,
      <<"app-misc/foo-1", "app-misc/foo">> }

\* C15: a package atom category-suffix/name-version between blanks is in
\* the document as one hyperlink whose target ends with category/name,
\* without the version, and whose visible text is the whole atom, version
\* included.
C15_AtomLinkedWhole ==
    pc = "done" =>
        \A a \in Atoms :
            Occurs(" " \o a[1] \o " ", content) =>
                Occurs("/" \o a[2] \o "\">" \o a[1] \o "</a>", text)

\* C16: stripping the colour sequences is idempotent: after one pass no
\* sequence that would be stripped is left, a second pass changes nothing.
C16_StripAnsiIdempotent ==
    pc = "done" =>
        LET once == stripAnsi(joined, 1)
        IN  /\ \A k \in 1..Len(once) : ansiEnd(once, k) = 0
            /\ stripAnsi(once, 1) = once

\* C18: classification and rendering raise nothing and return a result
\* whatever the text: no exception leaves the loop, the class is one of the
\* five, every pass of the loop consumes a line of the file (so the loop
\* ends and _html returns), and an undecodable byte is in the document as
\* the replacement character.
C18_NeverRaises ==
    /\ [](/\ pc # "raised"
          /\ pc # "start" => eclass \in EClassNames
          /\ pc = "done" =>
                 /\ ~Occurs(InvalidByte, text)
                 /\ Occurs(InvalidByte, content) => Occurs(ReplacementChar, text))
    /\ [][ pc = "loop" => \/ pc' = "done"
                          \/ pc' = "loop" /\ Len(elogfile') < Len(elogfile) ]_vars

C18_Witness ==
    /\ pc = "done"
    /\ content = "@x: @\na:b:c:d\n"
    /\ eclass = "Info"
    /\ text = "?x: ? <br />\na:b:c:d <br />\n</p>\n"

(***************************************************************************)
(* Files that are not read                                                 *)
(***************************************************************************)
EndsWith(s, suffix) == MatchAt(s, Len(s) - Len(suffix) + 1, suffix)

\* The name has none of the extensions .gz, .bz2, .log.
UnknownExtension(name) ==
    \A suffix \in { ".gz", ".bz2", ".log" } : ~EndsWith(name, suffix)

\* The documents of the two placeholder texts.
Placeholders ==
    { htmlText(split(UnsupportedFormat, "\n")), htmlText(split(DoesNotOpen, "\n")) }

\* C19: for a file whose extension is none of .gz, .bz2, .log or that does
\* not open, nothing is raised: the class of the elog is Error and the
\* document is a fixed placeholder that holds "ERROR:", whatever is in the
\* file.
C19_UnreadableFileIsErrorPlaceholder ==
    UnknownExtension(filename) \/ ~openable =>
        /\ pc # "raised"
        /\ pc # "start" => eclass = "Error"
        /\ pc = "done" => text \in Placeholders /\ Occurs("ERROR:", text)

C19_Witness ==
    /\ pc = "done"
    /\ filename = "cat:pkg:20200101-000000.log.xz"
    /\ openable
    /\ content = "LOG: x\n"
    /\ eclass = "Error"
    /\ Occurs("<h3>Unsupported format</h3>", text)

(***************************************************************************)
(* Deleting the selected elogs                                             *)
(***************************************************************************)
\* deleteSelected returns in this step, and no removal has failed.
DeletedAll == gpc # "idle" /\ gpc' = "idle" /\ skipped = 0

\* C20: when the delete action completes on a non-empty selection, every
\* removal having succeeded, each selected row is gone from the model and
\* its file from disk, the other rows and files are there as before, and
\* the model has as many rows as there are elog files on disk.
C20_DeleteRemovesSelectedOnly ==
    [][ DeletedAll =>
            LET selected == Range(atStart.selection)
            IN  /\ selected # {}
                /\ \A f \in selected :
                       f \notin Range(filenames(rows')) /\ f \notin disk'
                /\ filenames(rows') =
                       SelectSeq(filenames(atStart.rows), LAMBDA f : f \notin selected)
                /\ disk' = atStart.disk \ selected
                /\ rowCount(rows') = Cardinality(disk') ]_vars

\* The loop of deleteSelected has ended without a failure: two of three
\* rows were selected, the third is left with its file.
C20_Witness ==
    /\ gpc = "while"
    /\ selection = <<>>
    /\ skipped = 0
    /\ Len(atStart.rows) = MaxFiles
    /\ Len(atStart.selection) = 2
    /\ Len(rows) = MaxFiles - 2
    /\ disk = Range(filenames(rows))

\* C21: the delete action with no row selected completes without error:
\* deleteSelected never ends in an exception.
C21_DeleteNothingCompletes == gpc # "IndexError"

\* The files of the rows that this step removes from the model.
removedRows == Range(filenames(rows)) \ Range(filenames(rows'))

\* C25: during the delete action a row leaves the model only when its file
\* is no longer on disk; a row whose file could not be removed stays in the
\* model, its file on disk; once the answer is Abort no file and no row is
\* removed any more.
C25_RowGoesAfterItsFile ==
    [][ /\ gpc = "while" => \A f \in removedRows : f \notin disk'
        /\ gpc = "while" /\ gpc' = "messagebox" =>
               LET f == selection[skipped + 1]
               IN  f \in Range(filenames(rows')) /\ f \in disk'
        /\ gpc = "after" => disk' = disk /\ removedRows = {} ]_vars

\* A row was removed, then a removal failed: the box is open.
C25_Witness ==
    /\ gpc = "messagebox"
    /\ Len(rows) < Len(atStart.rows)
    /\ selection[skipped] \in disk
    /\ selection[skipped] \in Range(filenames(rows))

\* The selected rows that the loop has still to try.
remaining == Len(selection) - skipped

\* This step is a pass of the while loop of deleteSelected (a step that
\* changes the disk only is one of another process).
loopPass ==
    gpc = "while" /\ gpc' # "idle" /\ ~ UNCHANGED <<gpc, rows, selection, skipped>>

\* C26: the delete loop terminates and tries each selected row at most
\* once: every pass of the loop makes the number of selected rows not yet
\* skipped smaller, that number is never negative, the row tried in a pass
\* is removed or joins the skipped rows (the first `skipped` of the
\* selection, never tried again), and the answer to the message box
\* changes neither.
C26_DeleteLoopTerminates ==
    /\ [](gpc \in { "while", "messagebox", "after" } =>
              /\ remaining >= 0
              /\ \A i, j \in DOMAIN selection : i # j => selection[i] # selection[j]
              /\ \A i \in 1..skipped : selection[i] \in locked)
    /\ [][ /\ loopPass =>
                  /\ remaining' < remaining
                  /\ LET f == selection[skipped + 1]
                     IN  \/ f \notin Range(selection')
                         \/ skipped' = skipped + 1 /\ selection'[skipped'] = f
           /\ gpc = "messagebox" =>
                  /\ gpc' \in { "while", "after" }
                  /\ UNCHANGED <<selection, skipped>> ]_vars

\* One row was skipped, one removed, one is still to try.
C26_Witness ==
    /\ gpc = "while"
    /\ skipped = 1
    /\ Len(selection) = 2
    /\ Len(atStart.selection) = 3

\* The rows that are being viewed.
partiallyChecked(rs) ==
    { rs[k].filename : k \in { j \in DOMAIN rs : rs[j].readState = "PartiallyChecked" } }

\* C28: between the actions at most one row is PartiallyChecked, and that
\* row is the current row.
C28_OnlyCurrentRowPartiallyChecked ==
    gpc = "idle" =>
        /\ Cardinality(partiallyChecked(rows)) <= 1
        /\ \A f \in partiallyChecked(rows) : f = current

(***************************************************************************)
(* The read and important flags, and refresh                               *)
(***************************************************************************)
\* In this step the user moves the current row from one row of the table
\* to another.
rowChanged ==
    /\ gpc = "idle" /\ gpc' = "idle"
    /\ filenames(rows') = filenames(rows)
    /\ current # "" /\ current' # "" /\ current' # current

\* C22: when the current row moves from a row to another row that is
\* unread, the read count grows by exactly one.
C22_EnteringUnreadRowCountsOne ==
    [][ rowChanged /\ readState(rows, current') = "Unchecked" =>
            readCount(rows') = readCount(rows) + 1 ]_vars

\* The current row was entered unread from another row and is being
\* viewed.
C22_Witness ==
    /\ gpc = "idle"
    /\ current # ""
    /\ readState(rows, current) = "PartiallyChecked"
    /\ readCount(rows) = 1

\* The rows outside the selection are in rs2 as they are in rs1.
unselectedKept(rs1, rs2, sel) ==
    /\ filenames(rs2) = filenames(rs1)
    /\ \A k \in DOMAIN rs1 : rs1[k].filename \notin Range(sel) => rs2[k] = rs1[k]

\* C23: after mark-read every selected row counts as read, after
\* mark-unread none does; with all rows selected the read count is the elog
\* count, respectively 0; the rows that are not selected keep their state.
C23_MarkSetsSelectedRows ==
    [][ /\ markRead =>
               /\ \A f \in Range(selection) : readState(rows', f) # "Unchecked"
               /\ unselectedKept(rows, rows', selection)
               /\ Range(selection) = Range(filenames(rows)) =>
                      readCount(rows') = rowCount(rows')
        /\ markUnread =>
               /\ \A f \in Range(selection) : readState(rows', f) = "Unchecked"
               /\ unselectedKept(rows, rows', selection)
               /\ Range(selection) = Range(filenames(rows)) =>
                      readCount(rows') = 0 ]_vars

\* All rows were selected, one of them read and one unread, and mark-read
\* has made the read count the elog count.
C23_Witness ==
    /\ Len(atStart.selection) = MaxElogs
    /\ Len(rows) = MaxElogs
    /\ readCount(atStart.rows) = 1
    /\ readCount(rows) = MaxElogs
    /\ filenames(rows) = filenames(atStart.rows)

\* C24: after refresh the model has exactly one row for each elog file on
\* disk, and none else: the elog count is the number of elog files.
C24_RefreshShowsFilesOnDisk ==
    [][ refresh =>
            /\ \A i, j \in DOMAIN rows' : i # j => rows'[i].filename # rows'[j].filename
            /\ Range(filenames(rows')) = disk' \cap Range(WindowFiles)
            /\ rowCount(rows') = Cardinality(disk' \ OtherFiles) ]_vars

\* Refresh has dropped the row of the first file, which was gone, and the
\* table shows the files that are on disk, one of them from a category
\* directory.
C24_Witness ==
    /\ WindowFiles[1] \notin Range(filenames(rows))
    /\ WindowFiles[2] \in Range(filenames(rows))
    /\ Range(filenames(rows)) = disk \ OtherFiles

\* C27: refresh keeps the flags of every elog whose file is still there: it
\* counts as read afterwards exactly if it did before, and is important
\* afterwards exactly if it was before.
C27_RefreshKeepsFlags ==
    [][ refresh =>
            \A f \in Range(filenames(rows)) \cap Range(filenames(rows')) :
                /\ readState(rows', f) # "Unchecked" <=> readState(rows, f) # "Unchecked"
                /\ importantState(rows', f) = importantState(rows, f) ]_vars

\* C29: a row that was the current row and is left counts as read
\* afterwards.
C29_LeftRowCountsAsRead ==
    [][ rowChanged => readState(rows', current) # "Unchecked" ]_vars

(***************************************************************************)
(* Headers and colour sequences                                            *)
(***************************************************************************)
\* C30: header recognition does not depend on colour sequences: the
\* document of a file is the document of the file with its colour sequences
\* stripped first, so a line that is a header once stripped is rendered as
\* that header.
C30_RenderingIgnoresAnsi ==
    pc = "done" =>
        LET parts == split(stripAnsi(content, 1), "\n")
        IN  text = htmlText(SubSeq(parts, 1, Len(parts) - 1))

====
